---- MODULE Spec2Model ----
(***************************************************************************)
(* A model of backend/app.py: the connection manager (get_db_connection),  *)
(* the bootstrap (init_db) and the five HTTP handlers, run by request      *)
(* contexts against one MySQL database.                                    *)
(*                                                                         *)
(* Every step of a context is one interaction with the database server     *)
(* (connect, statement, commit) together with the local code around it.    *)
(***************************************************************************)
EXTENDS Integers, Sequences, FiniteSets, TLC

\* ------------------------------------------------------------------ bounds
MaxTick == 1        \* the server clock (CURRENT_TIMESTAMP, in seconds) runs 0..MaxTick
MaxAdded == 2       \* products that add_product may insert in one run
MaxOrders == 2      \* orders that create_order may insert in one run

\* ------------------------------------------------------- program constants
max_retries == 5
DefaultStock == 10

\* The request contexts: two threads of one server, or the main threads of
\* two server instances started against the same database.
Ctx == {"c1", "c2"}

\* ------------------------------------------------------------- JSON values
\* A JSON value of a request body, in one record shape: k is the Python type.
Null == [k |-> "null", n |-> 0, s |-> "", l |-> <<>>]
Num(n) == [k |-> "num", n |-> n, s |-> "", l |-> <<>>]
Str(s) == [k |-> "str", n |-> 0, s |-> s, l |-> <<>>]
List(l) == [k |-> "list", n |-> 0, s |-> "", l |-> l]

\* request.get_json(): None, or a dict d (a function from its keys).
NoBody == [body |-> FALSE, d |-> <<>>]
Body(d) == [body |-> TRUE, d |-> d]

\* dict.get(key, default)
GetOr(d, key, default) == IF key \in DOMAIN d THEN d[key] ELSE default

\* dict.get(key)
Get(d, key) == GetOr(d, key, Null)

\* Python truth value of a JSON value
Truthy(v) ==
    CASE v.k = "null" -> FALSE
      [] v.k = "num" -> v.n # 0
      [] v.k = "str" -> v.s # ""
      [] v.k = "list" -> v.l # <<>>

\* The texts float() parses, with their values in hundredths.
FloatText == ("19.99" :> 1999) @@ ("0" :> 0)

\* float(v): ok with the number in hundredths, or ValueError / TypeError.
Float(v) ==
    CASE v.k = "num" -> [ok |-> TRUE, n |-> v.n]
      [] v.k = "str" -> IF v.s \in DOMAIN FloatText
                        THEN [ok |-> TRUE, n |-> FloatText[v.s]]
                        ELSE [ok |-> FALSE, n |-> 0]
      [] OTHER -> [ok |-> FALSE, n |-> 0]

\* ------------------------------------------------------------------- state
VARIABLES
    tablesExist,    \* the products and orders tables exist
    products,       \* committed rows of products
    orders,         \* committed rows of orders
    nextProductId,  \* AUTO_INCREMENT counter of products
    nextOrderId,    \* AUTO_INCREMENT counter of orders
    clock,          \* CURRENT_TIMESTAMP of the server, in seconds
    created,        \* the orders whose creation was acknowledged: id, submitted items
    pc,             \* per context: where it is in its operation
    op,             \* per context: the operation it runs
    data,           \* per context: the request body
    conn,           \* per context: the local conn: "none", "open", "closed"
    attempt,        \* per context: the loop variable of get_db_connection
    tries,          \* per context: calls of pymysql.connect made by this acquire
    sleeps,         \* per context: calls of time.sleep(5) made by this acquire
    count,          \* per context: the product count init_db read
    pending,        \* per context: rows inserted on conn and not yet committed
    resp            \* per context: the response returned (init_db: the line logged)

dbVars == <<tablesExist, products, orders, nextProductId, nextOrderId, clock>>
ctxVars == <<pc, op, data, conn, attempt, tries, sleeps, count, pending, resp>>
vars == <<tablesExist, products, orders, nextProductId, nextOrderId, clock, created,
          pc, op, data, conn, attempt, tries, sleeps, count, pending, resp>>

\* A response: HTTP status, message, a detail of the message, id, rows.
Resp(code, msg, field, id, rows) ==
    [code |-> code, msg |-> msg, field |-> field, id |-> id, rows |-> rows]

NoResp == Resp(0, "", "", 0, <<>>)

\* The database is fresh, or carries the empty tables of an earlier start that
\* ended between CREATE TABLE and the commit of the seed rows.
Init ==
    /\ tablesExist \in BOOLEAN
    /\ products = {}
    /\ orders = {}
    /\ nextProductId = 1
    /\ nextOrderId = 1
    /\ clock = 0
    /\ created = {}
    /\ pc = [c \in Ctx |-> "idle"]
    /\ op = [c \in Ctx |-> "none"]
    /\ data = [c \in Ctx |-> NoBody]
    /\ conn = [c \in Ctx |-> "none"]
    /\ attempt = [c \in Ctx |-> 0]
    /\ tries = [c \in Ctx |-> 0]
    /\ sleeps = [c \in Ctx |-> 0]
    /\ count = [c \in Ctx |-> 0]
    /\ pending = [c \in Ctx |-> {}]
    /\ resp = [c \in Ctx |-> NoResp]

\* A second of the server clock passes.
Tick ==
    /\ clock < MaxTick
    /\ clock' = clock + 1
    /\ UNCHANGED <<tablesExist, products, orders, nextProductId, nextOrderId, created>>
    /\ UNCHANGED ctxVars

\* ------------------------------------------------------- entering a handler
\* The context enters operation o with body p; its locals are unbound.
Enter(c, o, p, at) ==
    /\ pc[c] = "idle"
    /\ pc' = [pc EXCEPT ![c] = at]
    /\ op' = [op EXCEPT ![c] = o]
    /\ data' = [data EXCEPT ![c] = p]
    /\ conn' = [conn EXCEPT ![c] = "none"]
    /\ attempt' = [attempt EXCEPT ![c] = 0]
    /\ tries' = [tries EXCEPT ![c] = 0]
    /\ sleeps' = [sleeps EXCEPT ![c] = 0]
    /\ count' = [count EXCEPT ![c] = 0]
    /\ pending' = [pending EXCEPT ![c] = {}]
    /\ resp' = [resp EXCEPT ![c] = NoResp]
    /\ UNCHANGED dbVars
    /\ UNCHANGED created

\* The handler returns r. conn is left as it is: a handler that has not called
\* conn.close() returns with the connection open (closing it is then left to
\* the garbage collector).
Return(c, r) ==
    /\ pc' = [pc EXCEPT ![c] = "idle"]
    /\ resp' = [resp EXCEPT ![c] = r]

\* except Exception as e: return jsonify({"error": str(e)}), 500
\* (health_check's body differs, its status is the same)
Except(c, msg, field) == Return(c, Resp(500, msg, field, 0, <<>>))

\* ----------------------------------------------------- get_db_connection
\* pymysql.connect succeeds: the connection is returned at once.
ConnectOk(c) ==
    /\ pc[c] = "connect"
    /\ tries' = [tries EXCEPT ![c] = @ + 1]
    /\ conn' = [conn EXCEPT ![c] = "open"]
    /\ pc' = [pc EXCEPT ![c] = "connected"]
    /\ UNCHANGED <<op, data, attempt, sleeps, count, pending, resp>>
    /\ UNCHANGED dbVars
    /\ UNCHANGED created

\* RetryOrRaise with the bound of the last attempt off by one: the 5th failed
\* attempt sleeps and the loop goes on.
RetryOrRaiseOffByOne(c) ==
    IF attempt[c] < max_retries
    THEN /\ pc' = [pc EXCEPT ![c] = "sleep"]
         /\ UNCHANGED resp
    ELSE Except(c, "OperationalError", ToString(tries[c] + 1))

\* The except branch of the retry loop when the attempt fails: the last
\* attempt re-raises, an earlier one goes on to sleep.
RetryOrRaise(c) ==
    IF attempt[c] < max_retries - 1
    THEN /\ pc' = [pc EXCEPT ![c] = "sleep"]
         /\ UNCHANGED resp
    ELSE IF op[c] = "init_db"
         THEN Return(c, Resp(0, "Database initialization failed", ToString(tries[c] + 1), 0, <<>>))
         ELSE Except(c, "OperationalError", ToString(tries[c] + 1))

\* pymysql.connect raises.
ConnectFail(c) ==
    /\ pc[c] = "connect"
    /\ tries' = [tries EXCEPT ![c] = @ + 1]
    /\ RetryOrRaise(c)
    /\ UNCHANGED <<op, data, conn, attempt, sleeps, count, pending>>
    /\ UNCHANGED dbVars
    /\ UNCHANGED created

\* time.sleep(5), then the next iteration of the loop.
Sleep(c) ==
    /\ pc[c] = "sleep"
    /\ sleeps' = [sleeps EXCEPT ![c] = @ + 1]
    /\ attempt' = [attempt EXCEPT ![c] = @ + 1]
    /\ pc' = [pc EXCEPT ![c] = "connect"]
    /\ UNCHANGED <<op, data, conn, tries, count, pending, resp>>
    /\ UNCHANGED dbVars
    /\ UNCHANGED created

\* ------------------------------------------------------------ health_check
HealthRequest(c) == Enter(c, "health_check", NoBody, "connect")

HealthCheck(c) ==
    /\ pc[c] = "connected"
    /\ op[c] = "health_check"
    /\ conn' = [conn EXCEPT ![c] = "closed"]
    /\ Return(c, Resp(200, "healthy", "connected", 0, <<>>))
    /\ UNCHANGED <<op, data, attempt, tries, sleeps, count, pending>>
    /\ UNCHANGED dbVars
    /\ UNCHANGED created

\* ------------------------------------------------------------------ rows
\* Every ordering ORDER BY created_at DESC may return: the rows sorted by
\* created_at, newest first; rows of equal created_at come in any order.
RECURSIVE Perms(_)
Perms(S) ==
    IF S = {} THEN {<<>>}
    ELSE UNION {{<<x>> \o p : p \in Perms(S \ {x})} : x \in S}

OrderByCreatedAtDesc(rows) ==
    {s \in Perms(rows) :
        \A i, j \in 1..Len(s) : i < j => s[i].created_at >= s[j].created_at}

\* The contexts that are inside operation o.
Running(o) == {c \in Ctx : op[c] = o /\ pc[c] # "idle"}

\* "table doesn't exist": the statement fails on a database without tables.
NoTable(c) == Except(c, "ProgrammingError", "table doesn't exist")

\* conn.commit() on the context's connection: its rows become visible.
Commit(c, table) == table \cup pending[c]

\* cursor.lastrowid after the INSERT
LastRowId(c) == (CHOOSE r \in pending[c] : TRUE).id

\* ------------------------------------------------------------ get_products
GetProductsRequest(c) == Enter(c, "get_products", NoBody, "connect")

GetProducts(c) ==
    /\ pc[c] = "connected"
    /\ op[c] = "get_products"
    /\ IF tablesExist
       THEN \E rows \in OrderByCreatedAtDesc(products) :
                /\ conn' = [conn EXCEPT ![c] = "closed"]
                /\ Return(c, Resp(200, "", "", 0, rows))
       ELSE /\ NoTable(c)
            /\ UNCHANGED conn
    /\ UNCHANGED <<op, data, attempt, tries, sleeps, count, pending>>
    /\ UNCHANGED dbVars
    /\ UNCHANGED created

\* ------------------------------------------------------------- add_product
SeedNames == {"MacBook Pro", "iPhone 15", "Sony Headphones", "Cotton T-Shirt"}

Added == {r \in products : r.name.s \notin SeedNames}

AddProductRequest(c, p) ==
    /\ Cardinality(Added) + Cardinality(Running("add_product")) < MaxAdded
    /\ Enter(c, "add_product", p, "validate")

\* if not data.get('name') or not data.get('price')
NameOrPriceMissing(d) == ~Truthy(Get(d, "name")) \/ ~Truthy(Get(d, "price"))

AddProductValidate(c) ==
    /\ pc[c] = "validate"
    /\ op[c] = "add_product"
    /\ IF ~data[c].body
       THEN Except(c, "AttributeError", "'NoneType' object has no attribute 'get'")
       ELSE IF NameOrPriceMissing(data[c].d)
            THEN Return(c, Resp(400, "Name and price are required", "", 0, <<>>))
            ELSE /\ pc' = [pc EXCEPT ![c] = "connect"]
                 /\ UNCHANGED resp
    /\ UNCHANGED <<op, data, conn, attempt, tries, sleeps, count, pending>>
    /\ UNCHANGED dbVars
    /\ UNCHANGED created

ProductRow(d, id, now) ==
    [id |-> id,
     name |-> d["name"],
     price |-> Float(d["price"]).n,
     description |-> GetOr(d, "description", Str("")),
     image_url |-> Get(d, "image_url"),
     category |-> GetOr(d, "category", Str("General")),
     stock_quantity |-> GetOr(d, "stock_quantity", Num(DefaultStock)),
     created_at |-> now]

AddProductInsert(c) ==
    /\ pc[c] = "connected"
    /\ op[c] = "add_product"
    /\ IF ~Float(data[c].d["price"]).ok
       THEN /\ Except(c, "ValueError", "could not convert string to float")
            /\ UNCHANGED <<pending, nextProductId>>
       ELSE IF ~tablesExist
            THEN /\ NoTable(c)
                 /\ UNCHANGED <<pending, nextProductId>>
            ELSE /\ pending' = [pending EXCEPT ![c] =
                                    {ProductRow(data[c].d, nextProductId, clock)}]
                 /\ nextProductId' = nextProductId + 1
                 /\ pc' = [pc EXCEPT ![c] = "inserted"]
                 /\ UNCHANGED resp
    /\ UNCHANGED <<op, data, conn, attempt, tries, sleeps, count>>
    /\ UNCHANGED <<tablesExist, products, orders, nextOrderId, clock, created>>

AddProductCommit(c) ==
    /\ pc[c] = "inserted"
    /\ op[c] = "add_product"
    /\ products' = Commit(c, products)
    /\ pending' = [pending EXCEPT ![c] = {}]
    /\ conn' = [conn EXCEPT ![c] = "closed"]
    /\ Return(c, Resp(200, "Product added successfully", "", LastRowId(c), <<>>))
    /\ UNCHANGED <<op, data, attempt, tries, sleeps, count>>
    /\ UNCHANGED <<tablesExist, orders, nextProductId, nextOrderId, clock, created>>

\* The request bodies of POST /products the model draws from.
Dict(pairs) == [k \in {p[1] : p \in pairs} |-> (CHOOSE p \in pairs : p[1] = k)[2]]

ProductBodies ==
    {NoBody} \cup
    {Body(Dict(n \cup p)) :
        n \in {{}, {<<"name", Str("")>>}, {<<"name", Str("Widget")>>}},
        p \in {{}, {<<"price", Num(0)>>}, {<<"price", Num(1999)>>},
               {<<"price", Str("abc")>>}, {<<"price", Str("19.99")>>}}}

\* Two clients adding and listing products, the database failing or not.
NextProducts ==
    \/ Tick
    \/ \E c \in Ctx :
        \/ \E p \in ProductBodies : AddProductRequest(c, p)
        \/ AddProductValidate(c)
        \/ ConnectOk(c)
        \/ ConnectFail(c)
        \/ Sleep(c)
        \/ AddProductInsert(c)
        \/ AddProductCommit(c)
        \/ GetProductsRequest(c)
        \/ GetProducts(c)

SpecProducts == Init /\ [][NextProducts]_vars

\* ------------------------------------------------- json.dumps / json.loads
\* A line item is a JSON object {"id": n, "qty": m}. The document text is the
\* sequence of its tokens.
MaxDigit == 9       \* the numbers of a line item are 0..MaxDigit

DumpItem(it) ==
    <<"{", "\"id\"", ":", ToString(it.id), ",", "\"qty\"", ":", ToString(it.qty), "}">>

RECURSIVE DumpItems(_)
DumpItems(l) ==
    IF l = <<>> THEN <<>>
    ELSE IF Len(l) = 1 THEN DumpItem(l[1])
    ELSE DumpItem(Head(l)) \o <<",">> \o DumpItems(Tail(l))

\* json.dumps(data['items'])
Dumps(l) == <<"[">> \o DumpItems(l) \o <<"]">>

\* The key a quoted token names, and the number a digit token names.
Unquote(t) == CASE t = "\"id\"" -> "id" [] t = "\"qty\"" -> "qty"

ParseInt(t) == CHOOSE n \in 0..MaxDigit : ToString(n) = t

RECURSIVE LoadItems(_)
LoadItems(t) ==
    IF t = <<>> THEN <<>>
    ELSE LET obj == (Unquote(t[2]) :> ParseInt(t[4])) @@ (Unquote(t[6]) :> ParseInt(t[8]))
             rest == SubSeq(t, 10, Len(t))
         IN <<obj>> \o (IF rest = <<>> THEN <<>> ELSE LoadItems(Tail(rest)))

\* json.loads(order['items'])
Loads(t) == LoadItems(SubSeq(t, 2, Len(t) - 1))

\* ------------------------------------------------------------ create_order
RequiredFields ==
    <<"customer_name", "customer_email", "customer_address", "total_amount", "items">>

\* FirstMissing scanning required_fields from its end.
FirstMissingFromEnd(d, i) ==
    LET missing == {j \in i..Len(RequiredFields) : RequiredFields[j] \notin DOMAIN d}
    IN IF missing = {} THEN ""
       ELSE RequiredFields[CHOOSE j \in missing : \A k \in missing : j >= k]

\* for field in required_fields: if field not in data: return ...
\* The first field of required_fields[i..] that d lacks, "" when none.
RECURSIVE FirstMissing(_, _)
FirstMissing(d, i) ==
    IF i > Len(RequiredFields) THEN ""
    ELSE IF RequiredFields[i] \notin DOMAIN d THEN RequiredFields[i]
    ELSE FirstMissing(d, i + 1)

\* not isinstance(data['items'], list) or len(data['items']) == 0
ItemsMalformed(v) == v.k # "list" \/ Len(v.l) = 0

CreateOrderRequest(c, p) ==
    /\ Cardinality(orders) + Cardinality(Running("create_order")) < MaxOrders
    /\ Enter(c, "create_order", p, "validate")

\* ValidateOrder without the check of an empty body.
ValidateOrderNoEmptyCheck(b) ==
    IF ~b.body
    THEN Resp(400, "No data provided", "", 0, <<>>)
    ELSE IF FirstMissing(b.d, 1) # ""
         THEN Resp(400, "Missing required field", FirstMissing(b.d, 1), 0, <<>>)
         ELSE IF ItemsMalformed(b.d["items"])
              THEN Resp(400, "Items must be a non-empty list", "", 0, <<>>)
              ELSE Resp(0, "", "", 0, <<>>)

\* The response of the validation of body b: code 0 when b passes.
ValidateOrder(b) ==
    IF ~b.body \/ DOMAIN b.d = {}
    THEN Resp(400, "No data provided", "", 0, <<>>)
    ELSE IF FirstMissing(b.d, 1) # ""
         THEN Resp(400, "Missing required field", FirstMissing(b.d, 1), 0, <<>>)
         ELSE IF ItemsMalformed(b.d["items"])
              THEN Resp(400, "Items must be a non-empty list", "", 0, <<>>)
              ELSE NoResp

CreateOrderValidate(c) ==
    /\ pc[c] = "validate"
    /\ op[c] = "create_order"
    /\ IF ValidateOrder(data[c]).code # 0
       THEN Return(c, ValidateOrder(data[c]))
       ELSE /\ pc' = [pc EXCEPT ![c] = "connect"]
            /\ UNCHANGED resp
    /\ UNCHANGED <<op, data, conn, attempt, tries, sleeps, count, pending>>
    /\ UNCHANGED dbVars
    /\ UNCHANGED created

\* OrderStatus taking the status of the request body when it has one.
OrderStatusFromBody(d) == IF "status" \in DOMAIN d THEN d["status"].s ELSE "pending"

\* The status written by the INSERT.
OrderStatus(d) == "pending"

OrderRow(d, id, now) ==
    [id |-> id,
     customer_name |-> d["customer_name"],
     customer_email |-> d["customer_email"],
     customer_phone |-> GetOr(d, "customer_phone", Str("")),
     customer_address |-> d["customer_address"],
     total_amount |-> Float(d["total_amount"]).n,
     items |-> Dumps(d["items"].l),
     status |-> OrderStatus(d),
     created_at |-> now]

CreateOrderInsert(c) ==
    /\ pc[c] = "connected"
    /\ op[c] = "create_order"
    /\ IF ~Float(data[c].d["total_amount"]).ok
       THEN /\ Except(c, "ValueError", "could not convert string to float")
            /\ UNCHANGED <<pending, nextOrderId>>
       ELSE IF ~tablesExist
            THEN /\ NoTable(c)
                 /\ UNCHANGED <<pending, nextOrderId>>
            ELSE /\ pending' = [pending EXCEPT ![c] =
                                    {OrderRow(data[c].d, nextOrderId, clock)}]
                 /\ nextOrderId' = nextOrderId + 1
                 /\ pc' = [pc EXCEPT ![c] = "inserted"]
                 /\ UNCHANGED resp
    /\ UNCHANGED <<op, data, conn, attempt, tries, sleeps, count>>
    /\ UNCHANGED <<tablesExist, products, orders, nextProductId, clock, created>>

CreateOrderCommit(c) ==
    /\ pc[c] = "inserted"
    /\ op[c] = "create_order"
    /\ orders' = Commit(c, orders)
    /\ pending' = [pending EXCEPT ![c] = {}]
    /\ conn' = [conn EXCEPT ![c] = "closed"]
    /\ Return(c, Resp(200, "Order created successfully", "pending", LastRowId(c), <<>>))
    /\ created' = created \cup {[id |-> LastRowId(c), items |-> data[c].d["items"].l]}
    /\ UNCHANGED <<op, data, attempt, tries, sleeps, count>>
    /\ UNCHANGED <<tablesExist, products, nextProductId, nextOrderId, clock>>

\* -------------------------------------------------------------- get_orders
GetOrdersRequest(c) == Enter(c, "get_orders", NoBody, "connect")

\* A row as get_orders returns it: order_date added, items parsed.
OrderRecord(row) ==
    [id |-> row.id,
     customer_name |-> row.customer_name,
     customer_email |-> row.customer_email,
     customer_phone |-> row.customer_phone,
     customer_address |-> row.customer_address,
     total_amount |-> row.total_amount,
     items |-> Loads(row.items),
     status |-> row.status,
     created_at |-> row.created_at,
     order_date |-> row.created_at]

\* Every result get_orders may return in the current state.
GetOrdersResults ==
    {[i \in 1..Len(rows) |-> OrderRecord(rows[i])] : rows \in OrderByCreatedAtDesc(orders)}

GetOrders(c) ==
    /\ pc[c] = "connected"
    /\ op[c] = "get_orders"
    /\ IF tablesExist
       THEN \E res \in GetOrdersResults :
                /\ conn' = [conn EXCEPT ![c] = "closed"]
                /\ Return(c, Resp(200, "", "", 0, res))
       ELSE /\ NoTable(c)
            /\ UNCHANGED conn
    /\ UNCHANGED <<op, data, attempt, tries, sleeps, count, pending>>
    /\ UNCHANGED dbVars
    /\ UNCHANGED created

\* The request bodies of POST /orders the model draws from.
Item(id, qty) == [id |-> id, qty |-> qty]

Items1 == <<Item(1, 2), Item(2, 1)>>

Items2 == <<Item(2, 1), Item(1, 2)>>

CustomerPairs ==
    {<<"customer_name", Str("A")>>, <<"customer_email", Str("a@x.com")>>,
     <<"customer_address", Str("1 St")>>}

\* Any subset of the required keys, with well-formed and malformed values.
AllOrderBodies ==
    {NoBody} \cup
    {Body(Dict(cs \cup t \cup i)) :
        cs \in SUBSET CustomerPairs,
        t \in {{}, {<<"total_amount", Num(1999)>>}, {<<"total_amount", Str("abc")>>}},
        i \in {{}, {<<"items", Str("x")>>}, {<<"items", List(<<>>)>>},
               {<<"items", List(Items1)>>}}}

\* All required keys, with or without a status of the caller's.
FullOrderBodies ==
    {Body(Dict(CustomerPairs \cup t \cup i \cup st)) :
        t \in {{<<"total_amount", Num(1999)>>}, {<<"total_amount", Str("abc")>>}},
        i \in {{<<"items", List(Items1)>>}, {<<"items", List(Items2)>>}},
        st \in {{}, {<<"status", Str("shipped")>>}}}

\* Two clients creating and listing orders, the database reachable.
NextOrders ==
    \/ Tick
    \/ \E c \in Ctx :
        \/ \E p \in FullOrderBodies : CreateOrderRequest(c, p)
        \/ CreateOrderValidate(c)
        \/ ConnectOk(c)
        \/ CreateOrderInsert(c)
        \/ CreateOrderCommit(c)
        \/ GetOrdersRequest(c)
        \/ GetOrders(c)

SpecOrders == Init /\ [][NextOrders]_vars

\* One client sending any body to POST /orders and listing the orders, the
\* database failing or not: its requests follow one another.
NextOneClient ==
    \/ Tick
    \/ \E p \in AllOrderBodies : CreateOrderRequest("c1", p)
    \/ CreateOrderValidate("c1")
    \/ ConnectOk("c1")
    \/ ConnectFail("c1")
    \/ Sleep("c1")
    \/ CreateOrderInsert("c1")
    \/ CreateOrderCommit("c1")
    \/ GetOrdersRequest("c1")
    \/ GetOrders("c1")

SpecOneClient == Init /\ [][NextOneClient]_vars

\* ----------------------------------------------------------------- init_db
\* sample_products: name, description, price in hundredths, category, stock.
\* (the image URLs are left out: no operation reads them)
SampleProducts ==
    <<[name |-> "MacBook Pro", description |-> "Powerful laptop for professionals",
       price |-> 199999, category |-> "Electronics", stock |-> 15],
      [name |-> "iPhone 15", description |-> "Latest smartphone with advanced features",
       price |-> 99999, category |-> "Electronics", stock |-> 25],
      [name |-> "Sony Headphones", description |-> "Wireless noise-canceling headphones",
       price |-> 29999, category |-> "Electronics", stock |-> 30],
      [name |-> "Cotton T-Shirt", description |-> "Comfortable cotton t-shirt",
       price |-> 2499, category |-> "Clothing", stock |-> 50]>>

\* SeedRows leaving out the last of the sample products.
SeedRowsButLast(first, now) ==
    {[id |-> first + i - 1,
      name |-> Str(SampleProducts[i].name),
      price |-> SampleProducts[i].price,
      description |-> Str(SampleProducts[i].description),
      image_url |-> Str("https://images.unsplash.com"),
      category |-> Str(SampleProducts[i].category),
      stock_quantity |-> Num(SampleProducts[i].stock),
      created_at |-> now] : i \in 1..(Len(SampleProducts) - 1)}

\* The rows executemany inserts: consecutive ids from `first`, one timestamp.
SeedRows(first, now) ==
    {[id |-> first + i - 1,
      name |-> Str(SampleProducts[i].name),
      price |-> SampleProducts[i].price,
      description |-> Str(SampleProducts[i].description),
      image_url |-> Str("https://images.unsplash.com"),
      category |-> Str(SampleProducts[i].category),
      stock_quantity |-> Num(SampleProducts[i].stock),
      created_at |-> now] : i \in 1..Len(SampleProducts)}

InitDbStart(c) == Enter(c, "init_db", NoBody, "connect")

\* init_db started while no other init_db is running.
InitDbStartAlone(c) ==
    /\ Running("init_db") = {}
    /\ InitDbStart(c)

\* CREATE TABLE IF NOT EXISTS products, orders
InitDbCreateTables(c) ==
    /\ pc[c] = "connected"
    /\ op[c] = "init_db"
    /\ tablesExist' = TRUE
    /\ pc' = [pc EXCEPT ![c] = "created"]
    /\ UNCHANGED <<op, data, conn, attempt, tries, sleeps, count, pending, resp>>
    /\ UNCHANGED <<products, orders, nextProductId, nextOrderId, clock, created>>

\* SELECT COUNT(*) as count FROM products: the committed rows
InitDbCount(c) ==
    /\ pc[c] = "created"
    /\ op[c] = "init_db"
    /\ count' = [count EXCEPT ![c] = Cardinality(products)]
    /\ pc' = [pc EXCEPT ![c] = "counted"]
    /\ UNCHANGED <<op, data, conn, attempt, tries, sleeps, pending, resp>>
    /\ UNCHANGED dbVars
    /\ UNCHANGED created

\* CatalogEmpty with the comparison turned into >= 0.
CatalogEmptyOrNot(c) == count[c] >= 0

\* if cursor.fetchone()['count'] == 0
CatalogEmpty(c) == count[c] = 0

\* The seed insert, made when the count read was zero.
InitDbSeed(c) ==
    /\ pc[c] = "counted"
    /\ op[c] = "init_db"
    /\ IF CatalogEmpty(c)
       THEN /\ pending' = [pending EXCEPT ![c] = SeedRows(nextProductId, clock)]
            /\ nextProductId' = nextProductId + Len(SampleProducts)
       ELSE UNCHANGED <<pending, nextProductId>>
    /\ pc' = [pc EXCEPT ![c] = "seeded"]
    /\ UNCHANGED <<op, data, conn, attempt, tries, sleeps, count, resp>>
    /\ UNCHANGED <<tablesExist, products, orders, nextOrderId, clock, created>>

\* conn.commit(), the success line, and the finally clause closing conn
InitDbCommit(c) ==
    /\ pc[c] = "seeded"
    /\ op[c] = "init_db"
    /\ products' = Commit(c, products)
    /\ pending' = [pending EXCEPT ![c] = {}]
    /\ conn' = [conn EXCEPT ![c] = "closed"]
    /\ Return(c, Resp(0, "Database initialized successfully", "", 0, <<>>))
    /\ UNCHANGED <<op, data, attempt, tries, sleeps, count>>
    /\ UNCHANGED <<tablesExist, orders, nextProductId, nextOrderId, clock, created>>

\* Starts of the server one after the other, beside a client adding products.
NextBoot ==
    \/ Tick
    \/ \E c \in Ctx :
        \/ InitDbStartAlone(c)
        \/ ConnectOk(c)
        \/ ConnectFail(c)
        \/ Sleep(c)
        \/ InitDbCreateTables(c)
        \/ InitDbCount(c)
        \/ InitDbSeed(c)
        \/ InitDbCommit(c)
        \/ AddProductRequest(c, Body(Dict({<<"name", Str("Widget")>>, <<"price", Num(1999)>>})))
        \/ AddProductValidate(c)
        \/ AddProductInsert(c)
        \/ AddProductCommit(c)

SpecBoot == Init /\ [][NextBoot]_vars

\* Two server instances started at once against the same database.
NextRace ==
    \/ Tick
    \/ \E c \in Ctx :
        \/ InitDbStart(c)
        \/ ConnectOk(c)
        \/ ConnectFail(c)
        \/ Sleep(c)
        \/ InitDbCreateTables(c)
        \/ InitDbCount(c)
        \/ InitDbSeed(c)
        \/ InitDbCommit(c)

SpecRace == Init /\ [][NextRace]_vars

\* Two clients of GET /health, the database failing or not.
NextHealth ==
    \E c \in Ctx :
        \/ HealthRequest(c)
        \/ ConnectOk(c)
        \/ ConnectFail(c)
        \/ Sleep(c)
        \/ HealthCheck(c)

SpecHealth == Init /\ [][NextHealth]_vars
\* ================================================================== claims
\* The context has returned from a handler of the HTTP layer.
Responded(c) ==
    /\ pc[c] = "idle"
    /\ op[c] \in {"health_check", "get_products", "add_product", "create_order", "get_orders"}

\* C1: no response is returned while a connection the request acquired is
\* still open, on every exit path of a handler.
C1_ReleasedBeforeResponse ==
    \A c \in Ctx : Responded(c) => conn[c] # "open"

\* C2: acquire makes at most 5 attempts, stops at the first one that
\* succeeds, waits once between a failed attempt and the next and never after
\* the 5th, and raises the 5th failure when all 5 fail.
C2_AcquireRetries ==
    \A c \in Ctx :
        /\ tries[c] <= 5
        /\ sleeps[c] <= 4
        /\ pc[c] = "connect" => conn[c] = "none" /\ sleeps[c] = tries[c]
        /\ pc[c] = "sleep" => conn[c] = "none" /\ tries[c] < 5 /\ sleeps[c] = tries[c] - 1
        /\ conn[c] # "none" => pc[c] \in {"connected", "idle"} /\ sleeps[c] = tries[c] - 1
        /\ (pc[c] = "idle" /\ op[c] = "health_check" /\ conn[c] = "none") =>
                /\ tries[c] = 5
                /\ sleeps[c] = 4
                /\ resp[c] = Resp(500, "OperationalError", "5", 0, <<>>)

\* C2 witness: one acquire failed 5 times and raised, another returned the
\* connection of its third attempt.
C2_Witness ==
    \E c, d \in Ctx :
        /\ pc[c] = "idle" /\ op[c] = "health_check" /\ resp[c].code = 500 /\ tries[c] = 5
        /\ conn[d] = "open" /\ tries[d] = 3 /\ sleeps[d] = 2

\* The handler of POST /orders leaves its validation in this step.
LeavesValidation(c) ==
    /\ pc[c] = "validate"
    /\ op[c] = "create_order"
    /\ pc'[c] # "validate"

\* The body is the empty JSON object.
EmptyObject(b) == b.body /\ DOMAIN b.d = {}

\* C3 (as claimed): createOrder({}) fails with a message naming customer_name.
C3_EmptyPayloadNamesFirstField ==
    \A c \in Ctx :
        (pc[c] = "idle" /\ op[c] = "create_order" /\ EmptyObject(data[c])) =>
            /\ resp[c].code = 400
            /\ resp[c].msg = "Missing required field"
            /\ resp[c].field = "customer_name"

\* C3 (amended): createOrder({}) fails with the 400 response "No data
\* provided", acquires no connection and stores no order.
C3_EmptyPayloadNoData ==
    [][\A c \in Ctx :
        (LeavesValidation(c) /\ EmptyObject(data[c])) =>
            /\ pc'[c] = "idle"
            /\ resp'[c] = Resp(400, "No data provided", "", 0, <<>>)
            /\ conn'[c] = "none"
            /\ pending'[c] = {}
            /\ orders' = orders]_vars

\* C3 witness: a client got its response to createOrder({}).
C3_Witness ==
    \E c \in Ctx :
        /\ pc[c] = "idle" /\ op[c] = "create_order" /\ EmptyObject(data[c])
        /\ resp[c].code = 400

\* The order in which the claim scans the required fields.
ClaimedOrder ==
    <<"customer_name", "customer_email", "customer_address", "total_amount", "items">>

AbsentAt(d) == {i \in 1..Len(ClaimedOrder) : ClaimedOrder[i] \notin DOMAIN d}

FirstAbsent(d) == ClaimedOrder[CHOOSE i \in AbsentAt(d) : \A j \in AbsentAt(d) : i <= j]

\* C4: for a non-empty body, the 400 response names the first absent required
\* field whatever else is absent or malformed; 'items must be a non-empty
\* list' is returned only when all five keys are present and items is not a
\* non-empty list; such a failure acquires no connection and stores nothing.
C4_FirstFailureWins ==
    [][\A c \in Ctx :
        (LeavesValidation(c) /\ data[c].body /\ DOMAIN data[c].d # {}) =>
            LET d == data[c].d IN
            /\ AbsentAt(d) # {} =>
                    resp'[c] = Resp(400, "Missing required field", FirstAbsent(d), 0, <<>>)
            /\ resp'[c].msg = "Items must be a non-empty list" <=>
                    (AbsentAt(d) = {} /\ (d["items"].k # "list" \/ d["items"].l = <<>>))
            /\ resp'[c].msg = "Items must be a non-empty list" => resp'[c].code = 400
            /\ resp'[c].code = 400 =>
                    /\ pc'[c] = "idle"
                    /\ conn'[c] = "none"
                    /\ pending'[c] = {}
                    /\ orders' = orders]_vars

\* C4 witness: a body lacking customer_email and total_amount, with a
\* malformed items, was answered with the first of the absent fields.
C4_Witness ==
    \E c \in Ctx :
        /\ pc[c] = "idle" /\ op[c] = "create_order" /\ data[c].body
        /\ DOMAIN data[c].d = {"customer_name", "customer_address", "items"}
        /\ data[c].d["items"].k = "str"
        /\ resp[c] = Resp(400, "Missing required field", "customer_email", 0, <<>>)

\* C5: addProduct answers 400 exactly when name is absent or empty or price
\* is absent; a non-empty name with a numeric price, 0 included, is accepted.
C5_RejectedExactlyWhenMissing ==
    \A c \in Ctx :
        (/\ pc[c] = "idle" /\ op[c] = "add_product" /\ data[c].body
         /\ Get(data[c].d, "price").k \in {"null", "num"}) =>
            (resp[c].code = 400 <=>
                \/ "name" \notin DOMAIN data[c].d
                \/ data[c].d["name"] = Str("")
                \/ "price" \notin DOMAIN data[c].d)

\* C6: a price that cannot be coerced to a number is answered with 400, not
\* with 500.
C6_NonNumericIs400 ==
    \A c \in Ctx :
        (/\ pc[c] = "idle" /\ op[c] = "add_product" /\ data[c].body
         /\ Truthy(Get(data[c].d, "name"))
         /\ "price" \in DOMAIN data[c].d
         /\ ~Float(Get(data[c].d, "price")).ok
         /\ resp[c].msg # "OperationalError") =>
            resp[c].code = 400

\* C7: every listing of the orders holds, for each order whose creation was
\* acknowledged, a record with its id, the submitted line items in their
\* order and the status "pending"; every stored order has status "pending".
C7_CreatedOrdersListed ==
    /\ \A a \in created : \A res \in GetOrdersResults :
            \E i \in DOMAIN res :
                /\ res[i].id = a.id
                /\ res[i].items = a.items
                /\ res[i].status = "pending"
    /\ \A r \in orders : r.status = "pending"
    /\ \A c \in Ctx :
            (pc[c] = "idle" /\ op[c] = "get_orders" /\ resp[c].code = 200) =>
                \A i \in DOMAIN resp[c].rows : resp[c].rows[i].status = "pending"

\* C7 witness: an order sent with a status of the caller's was acknowledged
\* and a listing returned it with the submitted items.
C7_Witness ==
    \E c, d \in Ctx :
        /\ pc[d] = "idle" /\ op[d] = "create_order" /\ resp[d].code = 200
        /\ "status" \in DOMAIN data[d].d
        /\ pc[c] = "idle" /\ op[c] = "get_orders" /\ resp[c].code = 200
        /\ \E i \in DOMAIN resp[c].rows :
                /\ resp[c].rows[i].id = resp[d].id
                /\ resp[c].rows[i].items = data[d].d["items"].l
                /\ resp[c].rows[i].items = Items2

\* C8: a listing returns the records newest first: of two orders created one
\* after the other by the one client, the later one (the higher id) comes
\* first, also when both were created within the same second.
C8_NewestFirst ==
    \A c \in Ctx :
        (pc[c] = "idle" /\ op[c] = "get_orders" /\ resp[c].code = 200) =>
            \A i, j \in DOMAIN resp[c].rows :
                i < j => resp[c].rows[i].id > resp[c].rows[j].id

SeedRowsIn(rows) == {r \in rows : r.name.s \in SeedNames}

\* C9: an init_db that read a product count above zero inserts nothing, and
\* init_db runs that follow one another leave each seed product at most once.
C9_BootstrapIdempotent ==
    /\ \A c \in Ctx :
            (op[c] = "init_db" /\ pc[c] = "seeded" /\ count[c] > 0) => pending[c] = {}
    /\ Cardinality(SeedRowsIn(products)) \in {0, 4}
    /\ \A n \in SeedNames : Cardinality({r \in products : r.name.s = n}) <= 1

\* C9 witness: init_db ran to its end twice, the second time against the
\* seeded catalog, and the catalog holds the 4 seed rows.
C9_Witness ==
    \E c, d \in Ctx :
        /\ c # d
        /\ pc[c] = "idle" /\ op[c] = "init_db" /\ count[c] = 0
        /\ resp[c].msg = "Database initialized successfully"
        /\ pc[d] = "idle" /\ op[d] = "init_db" /\ count[d] = 4
        /\ resp[d].msg = "Database initialized successfully"
        /\ Cardinality(products) = 4

\* The last init_db of c ran to its end after reading a count of zero.
SeededOnZero(c) ==
    /\ pc[c] = "idle"
    /\ op[c] = "init_db"
    /\ count[c] = 0
    /\ resp[c].msg = "Database initialized successfully"

\* C10: the seed guard is not atomic: when both concurrent bootstraps read a
\* count of zero, both insert the seed set, and the catalog ends with 8 seed
\* rows, each seed product twice.
C10_SeedGuardRaces ==
    (\A c \in Ctx : SeededOnZero(c)) =>
        /\ Cardinality(products) = 8
        /\ \A n \in SeedNames : Cardinality({r \in products : r.name.s = n}) = 2

\* C10 witness: both bootstraps read zero and committed: 8 seed rows.
C10_Witness ==
    /\ \A c \in Ctx : SeededOnZero(c)
    /\ Cardinality(SeedRowsIn(products)) = 8
====
